---- MODULE Spec2Model ----
(***************************************************************************)
(* runner-add-ssh: the elevated command runner (src/adapters/process.js),  *)
(* the Windows executor and the execution orchestrator, as one state       *)
(* machine.  A state is a point where the program is suspended on an       *)
(* await (an outstanding child process or I/O call) or has finished; an    *)
(* action is the completion event of that await followed by all the code   *)
(* that runs until the next await.                                         *)
(*                                                                         *)
(* Texts (stdout, stderr, error messages, argument lists) are modelled by  *)
(* the set of marker substrings they contain, which is all that the        *)
(* String.includes tests of the code can observe.                          *)
(***************************************************************************)
EXTENDS Integers, Sequences, FiniteSets

VARIABLES
  platform,     \* process.platform
  isRoot,       \* process.getuid && process.getuid() === 0
  isTTY,        \* process.stdin.isTTY
  plan,         \* the plan passed to execute
  epc,          \* execute: the await it is suspended on, or its end
  result,       \* execute: the result object (success absent = FALSE)
  thrown,       \* execute: the error it threw
  invoked,      \* execute: stage functions invoked so far, in order
  sudoAccess,   \* execute: the value hasSudoAccess resolved to
  completed,    \* stage functions whose promise resolved, in order
  failed,       \* the stage function whose promise rejected
  hpc,          \* hasSudoAccess: the await it is suspended on
  spc,          \* current stage function: the await it is suspended on
  issued,       \* per stage function: commands issued so far, in order
  observed,     \* per stage function: how each of these commands ended
  failedErr,    \* the error the failed stage function threw
  hexits,       \* hasSudoAccess: how each of its children ended, in order
  xpc,          \* execSudo: the await it is suspended on, or its end
  xcaller,      \* execSudo: who called it ("top" or "stage")
  xargs,        \* execSudo: markers contained in the text of args
  attempts,     \* execSudo: child processes spawned by this call, in order
  directErr,    \* execSudo: the error caught from the direct attempt
  sudoErr,      \* execSudo: the error caught from the sudo -n attempt
  sudoAvailable,\* execSudo: what checkCommand('sudo') resolved to
  exits,        \* execSudo: how each child of `attempts` ended, in order
  xout,         \* execSudo: what the call returned or threw
  outstanding   \* child processes spawned and not yet closed

vars == <<platform, isRoot, isTTY, plan, epc, result, thrown, invoked,
          sudoAccess, completed, failed, hpc, spc, issued, xpc, xcaller,
          xargs, attempts, directErr, sudoErr, sudoAvailable, exits, xout,
          outstanding, observed, failedErr, hexits>>

----
\* Bounds and input domains

\* number of commands a Linux stage function issues through execSudo
LinuxStageCmds == 2

PermissionSigs == {"EACCES", "EPERM", "Permission denied"}
PasswordSigs == {"password", "a terminal is required", "no tty"}
OutputSigs == {"State        : Installed", "Running"}

\* a text contains no marker or one of them
Texts(markers) == {{}} \cup {{m} : m \in markers}

StderrTexts == Texts(PermissionSigs \cup PasswordSigs \cup OutputSigs)
StdoutTexts == Texts(OutputSigs)
SpawnErrTexts == Texts(PermissionSigs)
ArgTexts == Texts({"password", "Permission denied"})
ExitCodes == {0, 1}

Platforms == {"linux", "win32"}
StageFns == {"installSSH", "configureSSH", "setupAuthorizedKeys", "startSSH"}
PlanOS == {"linux", "windows", "other"}
Plans == [os : PlanOS, needsInstall : BOOLEAN]

\* the events a child process ends with: 'error' (could not be spawned) or
\* 'close' with an exit code
Events ==
  [type : {"error"}, code : {1}, stdout : {{}}, stderr : {{}}, text : SpawnErrTexts]
  \cup [type : {"close"}, code : ExitCodes, stdout : StdoutTexts,
        stderr : StderrTexts, text : {{}}]

\* completion of an awaited call that is not a child process
IOOutcomes == {"ok", "fail"}

----
\* Values

NoErr == [text |-> <<>>, sigs |-> {}, origin |-> "none"]
NoRes == [stdout |-> {}, stderr |-> {}, code |-> -1]
NoPlan == [os |-> "none", needsInstall |-> FALSE]
NoOut == [kind |-> "none", res |-> NoRes, err |-> NoErr]

\* new ProcessError(message): text is the chain of message prefixes,
\* outermost first; sigs the markers contained in the whole message
ProcessError(text, sigs, origin) == [text |-> text, sigs |-> sigs, origin |-> origin]

\* new ProcessError(`${prefix}: ${error.message}`)
Wrap(prefix, error) ==
  [text |-> <<prefix>> \o error.text, sigs |-> error.sigs, origin |-> error.origin]

Child(prog, id, cmdText, argText, capture) ==
  [prog |-> prog, id |-> id, cmdText |-> cmdText, argText |-> argText,
   capture |-> capture]

Cur ==
  [platform |-> platform, isRoot |-> isRoot, isTTY |-> isTTY, plan |-> plan,
   epc |-> epc, result |-> result, thrown |-> thrown, invoked |-> invoked,
   hpc |-> hpc, spc |-> spc, issued |-> issued, xpc |-> xpc,
   xcaller |-> xcaller, xargs |-> xargs, attempts |-> attempts,
   directErr |-> directErr, sudoErr |-> sudoErr, xout |-> xout,
   sudoAccess |-> sudoAccess, completed |-> completed, failed |-> failed,
   sudoAvailable |-> sudoAvailable, exits |-> exits,
   observed |-> observed, failedErr |-> failedErr, hexits |-> hexits, outstanding |-> outstanding]

Becomes(t) ==
  /\ platform' = t.platform /\ isRoot' = t.isRoot /\ isTTY' = t.isTTY
  /\ plan' = t.plan /\ epc' = t.epc /\ result' = t.result
  /\ thrown' = t.thrown /\ invoked' = t.invoked /\ hpc' = t.hpc
  /\ spc' = t.spc /\ issued' = t.issued /\ xpc' = t.xpc
  /\ xcaller' = t.xcaller /\ xargs' = t.xargs /\ attempts' = t.attempts
  /\ directErr' = t.directErr /\ sudoErr' = t.sudoErr /\ xout' = t.xout
  /\ outstanding' = t.outstanding
  /\ sudoAccess' = t.sudoAccess /\ completed' = t.completed
  /\ failed' = t.failed /\ sudoAvailable' = t.sudoAvailable
  /\ exits' = t.exits
  /\ observed' = t.observed /\ failedErr' = t.failedErr
  /\ hexits' = t.hexits

----
\* spawnAsync

\* spawnAsync, the synchronous part: the child is spawned and the caller
\* is suspended on the returned promise
spawnAsync(s, child) == [s EXCEPT !.outstanding = Append(@, child)]

\* stdout/stderr are collected only when captureOutput is set
Captured(child, text) == IF child.capture THEN text ELSE {}

\* spawnAsync, the 'error' and 'close' handlers: how the promise settles
Settle(child, ev) ==
  IF ev.type = "error"
    THEN [ok |-> FALSE, res |-> NoRes,
          err |-> ProcessError(<<"Failed to spawn">>,
                               child.cmdText \cup ev.text, child.id)]
    ELSE IF ev.code = 0
      THEN [ok |-> TRUE,
            res |-> [stdout |-> Captured(child, ev.stdout),
                     stderr |-> Captured(child, ev.stderr), code |-> ev.code],
            err |-> NoErr]
      ELSE [ok |-> FALSE, res |-> NoRes,
            err |-> ProcessError(<<"Command failed">>,
                                 child.cmdText \cup child.argText
                                   \cup Captured(child, ev.stderr),
                                 child.id)]

\* the child whose completion the program is waiting for has closed
Closed(s) == [s EXCEPT !.outstanding = Tail(@)]

\* how a child ended: -1 when it could not be spawned, else its exit code
ExitOf(ev) == IF ev.type = "error" THEN -1 ELSE ev.code

\* the same for a child spawned by execSudo
RunnerClosed(s, ev) == [Closed(s) EXCEPT !.exits = Append(@, ExitOf(ev))]

\* the same for a child spawned by hasSudoAccess
ProbeClosed(s, ev) == [Closed(s) EXCEPT !.hexits = Append(@, ExitOf(ev))]

\* the commands whose result a stage function keeps (checkResult,
\* statusResult); the result of the others is dropped
Inspected == {"Get-WindowsCapability", "Get-Service"}

\* what a stage function sees of a settled command: whether it resolved
\* and, if it keeps the result, which of the markers it looks for are in
\* stdout or stderr
Seen(site, o) ==
  [ok |-> o.ok,
   output |-> IF site \in Inspected
                THEN (o.res.stdout \cup o.res.stderr) \cap OutputSigs
                ELSE {}]

\* the same for a child spawned directly by a stage function
StageClosed(s, ev) ==
  [Closed(s) EXCEPT
     !.observed[s.epc] =
        Append(@, Seen(s.spc, Settle(Head(s.outstanding), ev)))]

----
\* execSudo: the call, up to its first await

\* a spawnAsync call made by execSudo; the call is then suspended at that site
RunnerSpawn(s, site, child) ==
  spawnAsync([s EXCEPT !.xpc = site, !.attempts = Append(@, site)], child)

\* the four child processes execSudo can spawn
DirectChild(args) == Child("command", "direct", {}, args, TRUE)
WhichChild == Child("which", "which", {}, {}, TRUE)
SudoNChild(args) == Child("sudo", "sudo-n", {}, args, TRUE)
SudoIChild(args) == Child("sudo", "sudo", {}, args, FALSE)

\* execSudo(args, logger): try without sudo first
execSudo(s, caller, args) ==
  RunnerSpawn([s EXCEPT !.xcaller = caller, !.xargs = args, !.attempts = <<>>,
                        !.exits = <<>>, !.directErr = NoErr, !.sudoErr = NoErr,
                        !.sudoAvailable = "unknown", !.xout = NoOut],
              "direct", DirectChild(args))

----
\* Stage functions: the call, up to the first await

\* a spawnAsync call made directly by a stage function
StageSpawn(s, site) ==
  spawnAsync([s EXCEPT !.spc = site, !.issued[s.epc] = Append(@, site)],
             Child("powershell", site, {}, {}, TRUE))

\* a Linux stage function issues its next command through execSudo
LinuxStageCmd(s) ==
  execSudo([s EXCEPT !.spc = "cmd", !.issued[s.epc] = Append(@, "cmd")],
           "stage", {})

\* slip: startSSH does not await its first command before the second
WindowsStageNoAwait(s, fn) ==
  CASE fn = "installSSH" -> StageSpawn(s, "Get-WindowsCapability")
    [] fn = "configureSSH" -> StageSpawn(s, "New-Item")
    [] fn = "startSSH" ->
         StageSpawn(StageSpawn(s, "Set-Service"), "Start-Service")

\* windows.js installSSH / configureSSH / startSSH: first command
WindowsStage(s, fn) ==
  CASE fn = "installSSH" -> StageSpawn(s, "Get-WindowsCapability")
    [] fn = "configureSSH" -> StageSpawn(s, "New-Item")
    [] fn = "startSSH" -> StageSpawn(s, "Set-Service")

\* common.js setupAuthorizedKeys: an awaited call of an external collaborator
setupAuthorizedKeys(s) == [s EXCEPT !.spc = "authorized-keys"]

StepName(fn) ==
  CASE fn = "installSSH" -> "installed"
    [] fn = "configureSSH" -> "configured"
    [] fn = "setupAuthorizedKeys" -> "keys-setup"
    [] fn = "startSSH" -> "service-started"

\* slip: the step is logged when the stage is started, not when it completes
InvokeStageLogsEarly(s, fn) ==
  LET t == [s EXCEPT !.epc = fn, !.invoked = Append(@, fn),
                     !.result.steps = Append(@, StepName(fn))]
  IN  IF fn = "setupAuthorizedKeys" THEN setupAuthorizedKeys(t)
      ELSE IF s.plan.os = "linux" THEN LinuxStageCmd(t)
      ELSE WindowsStage(t, fn)

\* execute awaits a stage function of the executor selected by plan.os
InvokeStage(s, fn) ==
  LET t == [s EXCEPT !.epc = fn, !.invoked = Append(@, fn)]
  IN  IF fn = "setupAuthorizedKeys" THEN setupAuthorizedKeys(t)
      ELSE IF s.plan.os = "linux" THEN LinuxStageCmd(t)
      ELSE WindowsStage(t, fn)

----
\* execute

NewResult ==
  [installed |-> FALSE, configured |-> FALSE, keysSetup |-> FALSE,
   serviceStarted |-> FALSE, steps |-> <<>>, success |-> FALSE]

\* catch (error) { throw new ProcessError(`Execution failed: ...`) }
ExecuteCatch(s, error) ==
  [s EXCEPT !.epc = "thrown", !.spc = "idle",
            !.thrown = Wrap("Execution failed", error)]

\* slip: the result is returned without the success flag
ExecuteReturnNoFlag(s) == [s EXCEPT !.epc = "returned", !.spc = "idle"]

\* result.success = true; return result
ExecuteReturn(s) ==
  [s EXCEPT !.epc = "returned", !.spc = "idle", !.result.success = TRUE]

\* slip: the keys stage logs the name of the configure stage
StageReturnedWrongName(s) ==
  CASE s.epc = "installSSH" ->
         InvokeStage([s EXCEPT !.result.installed = TRUE,
                               !.result.steps = Append(@, "installed")],
                     "configureSSH")
    [] s.epc = "configureSSH" ->
         InvokeStage([s EXCEPT !.result.configured = TRUE,
                               !.result.steps = Append(@, "configured")],
                     "setupAuthorizedKeys")
    [] s.epc = "setupAuthorizedKeys" ->
         InvokeStage([s EXCEPT !.result.keysSetup = TRUE,
                               !.result.steps = Append(@, "configured")],
                     "startSSH")
    [] s.epc = "startSSH" ->
         ExecuteReturn([s EXCEPT !.result.serviceStarted = TRUE,
                                 !.result.steps = Append(@, "service-started")])

\* slip: the start stage logs its step without setting its flag
StageReturnedFlagMissing(s) ==
  CASE s.epc = "installSSH" ->
         InvokeStage([s EXCEPT !.result.installed = TRUE,
                               !.result.steps = Append(@, "installed")],
                     "configureSSH")
    [] s.epc = "configureSSH" ->
         InvokeStage([s EXCEPT !.result.configured = TRUE,
                               !.result.steps = Append(@, "configured")],
                     "setupAuthorizedKeys")
    [] s.epc = "setupAuthorizedKeys" ->
         InvokeStage([s EXCEPT !.result.keysSetup = TRUE,
                               !.result.steps = Append(@, "keys-setup")],
                     "startSSH")
    [] s.epc = "startSSH" ->
         ExecuteReturn([s EXCEPT !.result.steps = Append(@, "service-started")])

\* the code after each awaited stage function: set the flag, push the
\* step, invoke the next stage (the linux and windows branches are the same)
StageReturned(s) ==
  CASE s.epc = "installSSH" ->
         InvokeStage([s EXCEPT !.result.installed = TRUE,
                               !.result.steps = Append(@, "installed")],
                     "configureSSH")
    [] s.epc = "configureSSH" ->
         InvokeStage([s EXCEPT !.result.configured = TRUE,
                               !.result.steps = Append(@, "configured")],
                     "setupAuthorizedKeys")
    [] s.epc = "setupAuthorizedKeys" ->
         InvokeStage([s EXCEPT !.result.keysSetup = TRUE,
                               !.result.steps = Append(@, "keys-setup")],
                     "startSSH")
    [] s.epc = "startSSH" ->
         ExecuteReturn([s EXCEPT !.result.serviceStarted = TRUE,
                                 !.result.steps = Append(@, "service-started")])

\* slip: the error of a stage is swallowed and the run goes on
StageThrewContinues(s, error) == StageReturned(s)

\* an awaited stage function threw
StageThrew(s, error) == ExecuteCatch(s, error)

\* slip: the test of plan.needsInstall is inverted
RunStagesInverted(s) ==
  IF ~s.plan.needsInstall THEN InvokeStage(s, "installSSH")
  ELSE InvokeStage(s, "configureSSH")

\* slip: the install stage runs whatever plan.needsInstall says
RunStagesAlwaysInstall(s) == InvokeStage(s, "installSSH")

\* if (plan.needsInstall) { installSSH ... } configureSSH ...
RunStages(s) ==
  IF s.plan.needsInstall THEN InvokeStage(s, "installSSH")
  ELSE InvokeStage(s, "configureSSH")

\* slip: the result of the capability query is not looked at
AfterSudoAccessUnchecked(s, access) ==
  RunStages([s EXCEPT !.hpc = "done", !.sudoAccess = access])

\* the code after `await hasSudoAccess(logger)`
AfterSudoAccess(s, access) ==
  LET t == [s EXCEPT !.hpc = "done", !.sudoAccess = access]
  IN  IF ~access
        THEN ExecuteCatch(t, ProcessError(<<"Insufficient privileges">>, {},
                                          "execute"))
        ELSE RunStages(t)

\* canSudo()
canSudo(s) ==
  IF s.platform = "win32" THEN FALSE
  ELSE IF s.isRoot THEN TRUE
  ELSE FALSE

\* hasSudoAccess(logger), up to its first await
hasSudoAccess(s) ==
  IF s.platform = "win32" THEN AfterSudoAccess(s, FALSE)
  ELSE IF canSudo(s) THEN AfterSudoAccess(s, TRUE)
  ELSE spawnAsync([s EXCEPT !.hpc = "which"], WhichChild)

\* execute(plan, config, logger), up to its first await
execute(s, p) ==
  LET t == [s EXCEPT !.plan = p, !.result = NewResult, !.epc = "start"]
  IN  IF p.os = "linux" THEN hasSudoAccess([t EXCEPT !.epc = "hasSudoAccess"])
      ELSE IF p.os = "windows" THEN RunStages(t)
      ELSE ExecuteReturn(t)

----
\* Stage functions: the code after each await

StagePrefix(fn) ==
  CASE fn = "installSSH" -> "Failed to install OpenSSH Server"
    [] fn = "configureSSH" -> "Failed to configure SSH"
    [] fn = "startSSH" -> "Failed to start SSH service"
    [] OTHER -> "Failed to set up authorized keys"

\* the promise of the awaited stage function resolves / rejects
Resolves(s) == StageReturned([s EXCEPT !.completed = Append(@, s.epc)])
Rejects(s, error) ==
  StageThrew([s EXCEPT !.failed = s.epc, !.failedErr = error], error)

\* catch (error) { throw new ProcessError(`Failed to ...: ${error.message}`) }
StageCatch(s, error) == Rejects(s, Wrap(StagePrefix(s.epc), error))

\* [result.stdout, result.stderr].join('\n').includes(marker)
OutputIncludes(res, marker) == marker \in (res.stdout \cup res.stderr)

\* slip: the installer runs whatever the query reports
WinInstallCheckDoneAlwaysInstalls(s, o) ==
  IF ~o.ok THEN StageCatch(s, o.err)
  ELSE StageSpawn(s, "Add-WindowsCapability")

\* windows.js installSSH
WinInstallCheckDone(s, o) ==
  IF ~o.ok THEN StageCatch(s, o.err)
  ELSE IF OutputIncludes(o.res, "State        : Installed") THEN Resolves(s)
  ELSE StageSpawn(s, "Add-WindowsCapability")

WinInstallDone(s, o) ==
  IF ~o.ok THEN StageCatch(s, o.err) ELSE Resolves(s)

\* windows.js configureSSH
WinMkdirDone(s, o) ==
  IF ~o.ok THEN StageCatch(s, o.err) ELSE [s EXCEPT !.spc = "ensureDir"]

WinEnsureDirDone(s, io) ==
  IF io = "fail" THEN StageCatch(s, ProcessError(<<"ensureDir failed">>, {}, "fs"))
  ELSE [s EXCEPT !.spc = "writeFile"]

WinWriteFileDone(s, io) ==
  IF io = "fail" THEN StageCatch(s, ProcessError(<<"writeFile failed">>, {}, "fs"))
  ELSE StageSpawn(s, "Copy-Item")

WinCopyDone(s, o) ==
  IF ~o.ok THEN StageCatch(s, o.err) ELSE StageSpawn(s, "New-NetFirewallRule")

WinFirewallDone(s, o) ==
  IF ~o.ok THEN StageCatch(s, o.err) ELSE Resolves(s)

\* windows.js startSSH
WinSetAutoDone(s, o) ==
  IF ~o.ok THEN StageCatch(s, o.err) ELSE StageSpawn(s, "Start-Service")

WinStartDone(s, o) ==
  IF ~o.ok THEN StageCatch(s, o.err) ELSE StageSpawn(s, "Get-Service")

\* slip: the status that was read is not looked at
WinStatusDoneNoVerify(s, o) ==
  IF ~o.ok THEN StageCatch(s, o.err) ELSE Resolves(s)

WinStatusDone(s, o) ==
  IF ~o.ok THEN StageCatch(s, o.err)
  ELSE IF ~OutputIncludes(o.res, "Running")
    THEN StageCatch(s, ProcessError(<<"SSH service failed to start">>, {}, "startSSH"))
  ELSE Resolves(s)

\* common.js setupAuthorizedKeys settles
KeysDone(s, io) ==
  IF io = "fail"
    THEN Rejects(s, ProcessError(<<"Failed to set up authorized keys">>, {},
                                    "setupAuthorizedKeys"))
    ELSE Resolves(s)

\* a Linux stage function after a command issued through execSudo returned
LinuxStageCmdReturned(s) ==
  IF Len(s.issued[s.epc]) < LinuxStageCmds THEN LinuxStageCmd(s) ELSE Resolves(s)

\* a Linux stage function after execSudo threw: one failed command aborts it
LinuxStageCmdThrew(s, error) == StageCatch(s, error)

----
\* execSudo: the code after each await

\* return await spawnAsync(...)
execSudoReturn(s, res) ==
  LET t == [s EXCEPT !.xpc = "returned",
                     !.xout = [kind |-> "returned", res |-> res, err |-> NoErr]]
  IN  IF s.xcaller = "stage" THEN LinuxStageCmdReturned(t) ELSE t

\* throw error
execSudoThrow(s, error) ==
  LET t == [s EXCEPT !.xpc = "thrown",
                     !.xout = [kind |-> "thrown", res |-> NoRes, err |-> error]]
  IN  IF s.xcaller = "stage" THEN LinuxStageCmdThrew(t, error) ELSE t

\* slip: any recognised marker in the message counts as permission denied
PermissionDeniedLoose(error) == error.sigs # {}

\* error.message.includes('EACCES') || includes('EPERM')
\*   || includes('Permission denied') || error.code === 'EACCES'
\* (the errors spawnAsync rejects with carry a message only)
PermissionDenied(error) == error.sigs \cap PermissionSigs # {}

\* sudoMessage.includes('password') || includes('a terminal is required')
\*   || includes('no tty')
RequiresPassword(error) == error.sigs \cap PasswordSigs # {}

SudoUnavailable ==
  ProcessError(<<"Command requires elevated privileges, but sudo is not available">>,
               {}, "execSudo")

\* the message ends "Re-run with passwordless sudo or as root."
NonInteractiveUnavailable ==
  ProcessError(<<"Command requires sudo privileges, but non-interactive sudo is not available">>,
               {"password"}, "execSudo")

\* slip: the platform is not looked at before escalating
DirectFailedAnyPlatform(s, error) ==
  LET t == [s EXCEPT !.directErr = error]
  IN  IF PermissionDenied(error)
        THEN RunnerSpawn(t, "which", WhichChild)
        ELSE execSudoThrow(t, error)

\* the catch of the direct attempt
DirectFailed(s, error) ==
  LET t == [s EXCEPT !.directErr = error]
  IN  IF PermissionDenied(error)
        THEN IF s.platform # "win32"
               THEN RunnerSpawn(t, "which", WhichChild)
               ELSE execSudoThrow(t, error)
        ELSE execSudoThrow(t, error)

\* slip: a permission marker on stderr triggers the fallback even on exit 0
DirectDoneChecksStderr(s, o) ==
  IF o.ok /\ o.res.stderr \cap PermissionSigs = {}
    THEN execSudoReturn(s, o.res)
    ELSE IF o.ok
      THEN DirectFailed(s, ProcessError(<<"Command failed">>, o.res.stderr, "direct"))
      ELSE DirectFailed(s, o.err)

DirectDone(s, o) ==
  IF o.ok THEN execSudoReturn(s, o.res) ELSE DirectFailed(s, o.err)

\* slip: the non-interactive attempt is skipped
WhichDoneSkipsNonInteractive(s, o) ==
  LET t == [s EXCEPT !.sudoAvailable = IF o.ok THEN "yes" ELSE "no"]
  IN  IF ~o.ok THEN execSudoThrow(t, SudoUnavailable)
      ELSE RunnerSpawn(t, "sudo", SudoIChild(s.xargs))

\* slip: the result of the lookup is not looked at
WhichDoneIgnoresLookup(s, o) ==
  LET t == [s EXCEPT !.sudoAvailable = IF o.ok THEN "yes" ELSE "no"]
  IN  RunnerSpawn(t, "sudo-n", SudoNChild(s.xargs))

\* checkCommand('sudo') settled: sudoAvailable = o.ok
WhichDone(s, o) ==
  LET t == [s EXCEPT !.sudoAvailable = IF o.ok THEN "yes" ELSE "no"]
  IN  IF ~o.ok THEN execSudoThrow(t, SudoUnavailable)
      ELSE RunnerSpawn(t, "sudo-n", SudoNChild(s.xargs))

\* the catch of the sudo -n attempt
SudoNFailed(s, sudoError) ==
  LET t == [s EXCEPT !.sudoErr = sudoError]
      requiresPassword == RequiresPassword(sudoError)
  IN  IF ~s.isTTY \/ requiresPassword
        THEN execSudoThrow(t, NonInteractiveUnavailable)
        ELSE RunnerSpawn(t, "sudo", SudoIChild(s.xargs))

SudoNDone(s, o) ==
  IF o.ok THEN execSudoReturn(s, o.res) ELSE SudoNFailed(s, o.err)

\* slip: the promise of the interactive attempt is never settled
SudoIDoneNeverSettles(s, o) == s

SudoIDone(s, o) ==
  IF o.ok THEN execSudoReturn(s, o.res) ELSE execSudoThrow(s, o.err)

----
\* hasSudoAccess: the code after each await

HasSudoWhichDone(s, o) ==
  IF ~o.ok THEN AfterSudoAccess(s, FALSE)
  ELSE spawnAsync([s EXCEPT !.hpc = "probe"], Child("sudo", "sudo-n-v", {}, {}, TRUE))

\* slip: the outcome of the probe is not looked at
HasSudoProbeDoneIgnored(s, o) == AfterSudoAccess(s, TRUE)

HasSudoProbeDone(s, o) == AfterSudoAccess(s, o.ok)

----
\* Actions

Init ==
  /\ platform \in Platforms
  /\ isRoot \in (IF platform = "win32" THEN {FALSE} ELSE BOOLEAN)
  /\ isTTY \in BOOLEAN
  /\ plan = NoPlan
  /\ epc = "idle"
  /\ result = NewResult
  /\ thrown = NoErr
  /\ invoked = <<>>
  /\ hpc = "idle"
  /\ spc = "idle"
  /\ issued = [fn \in StageFns |-> <<>>]
  /\ observed = [fn \in StageFns |-> <<>>]
  /\ failedErr = NoErr
  /\ hexits = <<>>
  /\ xpc = "idle"
  /\ xcaller = "none"
  /\ xargs = {}
  /\ attempts = <<>>
  /\ directErr = NoErr
  /\ sudoErr = NoErr
  /\ xout = NoOut
  /\ sudoAccess = FALSE
  /\ completed = <<>>
  /\ failed = "none"
  /\ sudoAvailable = "unknown"
  /\ exits = <<>>
  /\ outstanding = <<>>

Idle == epc = "idle" /\ xpc = "idle"

\* a caller runs one command through the runner
CallExecSudo ==
  /\ Idle
  /\ \E args \in ArgTexts : Becomes(execSudo(Cur, "top", args))

\* setupCommand calls execute with the plan
CallExecute ==
  /\ Idle
  /\ \E p \in Plans : Becomes(execute(Cur, p))

\* the settled promise of the child the program is waiting for
Waiting == outstanding # <<>>
Settled(ev) == Settle(Head(outstanding), ev)

RunnerAt(site) == Waiting /\ xpc = site
StageAt(site) == epc \in {"installSSH", "configureSSH", "startSSH"} /\ spc = site

DirectAttemptCloses ==
  /\ RunnerAt("direct")
  /\ \E ev \in Events : Becomes(DirectDone(RunnerClosed(Cur, ev), Settled(ev)))

WhichCloses ==
  /\ RunnerAt("which")
  /\ \E ev \in Events : Becomes(WhichDone(RunnerClosed(Cur, ev), Settled(ev)))

SudoNCloses ==
  /\ RunnerAt("sudo-n")
  /\ \E ev \in Events : Becomes(SudoNDone(RunnerClosed(Cur, ev), Settled(ev)))

SudoICloses ==
  /\ RunnerAt("sudo")
  /\ \E ev \in Events : Becomes(SudoIDone(RunnerClosed(Cur, ev), Settled(ev)))

HasSudoWhichCloses ==
  /\ Waiting /\ epc = "hasSudoAccess" /\ hpc = "which"
  /\ \E ev \in Events : Becomes(HasSudoWhichDone(ProbeClosed(Cur, ev), Settled(ev)))

HasSudoProbeCloses ==
  /\ Waiting /\ epc = "hasSudoAccess" /\ hpc = "probe"
  /\ \E ev \in Events : Becomes(HasSudoProbeDone(ProbeClosed(Cur, ev), Settled(ev)))

WinInstallCheckCloses ==
  /\ Waiting /\ StageAt("Get-WindowsCapability")
  /\ \E ev \in Events : Becomes(WinInstallCheckDone(StageClosed(Cur, ev), Settled(ev)))

WinInstallCloses ==
  /\ Waiting /\ StageAt("Add-WindowsCapability")
  /\ \E ev \in Events : Becomes(WinInstallDone(StageClosed(Cur, ev), Settled(ev)))

WinMkdirCloses ==
  /\ Waiting /\ StageAt("New-Item")
  /\ \E ev \in Events : Becomes(WinMkdirDone(StageClosed(Cur, ev), Settled(ev)))

WinEnsureDirSettles ==
  /\ StageAt("ensureDir")
  /\ \E io \in IOOutcomes : Becomes(WinEnsureDirDone(Cur, io))

WinWriteFileSettles ==
  /\ StageAt("writeFile")
  /\ \E io \in IOOutcomes : Becomes(WinWriteFileDone(Cur, io))

WinCopyCloses ==
  /\ Waiting /\ StageAt("Copy-Item")
  /\ \E ev \in Events : Becomes(WinCopyDone(StageClosed(Cur, ev), Settled(ev)))

WinFirewallCloses ==
  /\ Waiting /\ StageAt("New-NetFirewallRule")
  /\ \E ev \in Events : Becomes(WinFirewallDone(StageClosed(Cur, ev), Settled(ev)))

WinSetAutoCloses ==
  /\ Waiting /\ StageAt("Set-Service")
  /\ \E ev \in Events : Becomes(WinSetAutoDone(StageClosed(Cur, ev), Settled(ev)))

WinStartCloses ==
  /\ Waiting /\ StageAt("Start-Service")
  /\ \E ev \in Events : Becomes(WinStartDone(StageClosed(Cur, ev), Settled(ev)))

WinStatusCloses ==
  /\ Waiting /\ StageAt("Get-Service")
  /\ \E ev \in Events : Becomes(WinStatusDone(StageClosed(Cur, ev), Settled(ev)))

KeysSettles ==
  /\ epc = "setupAuthorizedKeys" /\ spc = "authorized-keys"
  /\ \E io \in IOOutcomes : Becomes(KeysDone(Cur, io))

Next ==
  \/ CallExecSudo
  \/ CallExecute
  \/ DirectAttemptCloses
  \/ WhichCloses
  \/ SudoNCloses
  \/ SudoICloses
  \/ HasSudoWhichCloses
  \/ HasSudoProbeCloses
  \/ WinInstallCheckCloses
  \/ WinInstallCloses
  \/ WinMkdirCloses
  \/ WinEnsureDirSettles
  \/ WinWriteFileSettles
  \/ WinCopyCloses
  \/ WinFirewallCloses
  \/ WinSetAutoCloses
  \/ WinStartCloses
  \/ WinStatusCloses
  \/ KeysSettles

\* every awaited child process or I/O call eventually settles: the event
\* loop delivers the 'close' or 'error' event of a child that has ended
Completion ==
  \/ DirectAttemptCloses \/ WhichCloses \/ SudoNCloses \/ SudoICloses
  \/ HasSudoWhichCloses \/ HasSudoProbeCloses
  \/ WinInstallCheckCloses \/ WinInstallCloses
  \/ WinMkdirCloses \/ WinEnsureDirSettles \/ WinWriteFileSettles
  \/ WinCopyCloses \/ WinFirewallCloses
  \/ WinSetAutoCloses \/ WinStartCloses \/ WinStatusCloses
  \/ KeysSettles

Spec == Init /\ [][Next]_vars

\* the same program, with every awaited completion eventually delivered
FairSpec == Init /\ [][Next]_vars /\ WF_vars(Completion)

----
\* Properties

StageOrder == <<"installSSH", "configureSSH", "setupAuthorizedKeys", "startSSH">>
AllSteps == <<"installed", "configured", "keys-setup", "service-started">>

\* the lists filtered by needsInstall
ExpectedStages(p) == IF p.needsInstall THEN StageOrder ELSE Tail(StageOrder)
ExpectedSteps(p) == IF p.needsInstall THEN AllSteps ELSE Tail(AllSteps)

IsPrefix(a, b) == Len(a) <= Len(b) /\ SubSeq(b, 1, Len(a)) = a
Count(seq, x) == Cardinality({i \in DOMAIN seq : seq[i] = x})
Range(seq) == {seq[i] : i \in DOMAIN seq}
NoDuplicates(seq) == \A i, j \in DOMAIN seq : seq[i] = seq[j] => i = j

\* the step names of the stage functions that have completed
StepsOfCompleted == [i \in DOMAIN completed |-> StepName(completed[i])]

\* the message carries one of the permission-denied signatures
HasPermissionSignature(error) ==
  \E m \in {"EACCES", "EPERM", "Permission denied"} : m \in error.sigs

\* the message carries one of the password/tty-required signatures
HasPasswordSignature(error) ==
  \E m \in {"password", "a terminal is required", "no tty"} : m \in error.sigs

\* the direct attempt of the current execSudo call failed with a
\* permission-denied signature
DirectDenied == directErr # NoErr /\ HasPermissionSignature(directErr)

C1_StepsState ==
  /\ result.steps = StepsOfCompleted
  /\ NoDuplicates(result.steps)
  /\ epc = "thrown" =>
       /\ failed # "none" => /\ invoked = Append(completed, failed)
                             /\ StepName(failed) \notin Range(result.steps)
       /\ failed = "none" => result.steps = <<>> /\ invoked = <<>>

C1_StepsGrow ==
  \/ result.steps' = result.steps /\ completed' = completed
  \/ /\ Len(completed') = Len(completed) + 1
     /\ SubSeq(completed', 1, Len(completed)) = completed
     /\ result.steps' =
          Append(result.steps, StepName(completed'[Len(completed')]))

\* C1: steps is at every moment the list of the names of the stages that
\* have fully completed, without repetition; it changes only by appending the
\* name of the stage that has just completed; when execute fails, the failing
\* stage is the one invoked after the last completed one and its name is not
\* in steps.
C1_StepsFollowCompletedStages == []C1_StepsState /\ [][C1_StepsGrow]_vars

C1_Witness ==
  /\ epc = "thrown" /\ failed = "setupAuthorizedKeys"
  /\ result.steps = <<"installed", "configured">>

\* C2 as stated: steps is always a strict (proper) prefix of the stage list
\* filtered by needsInstall.
C2_StepsStrictPrefix ==
  epc # "idle" =>
    /\ IsPrefix(result.steps, ExpectedSteps(plan))
    /\ result.steps # ExpectedSteps(plan)

\* C2 amended: steps is always a prefix of the stage list filtered by
\* needsInstall, and it is the whole list only once execute has returned
\* successfully.
C2_StepsPrefix ==
  epc # "idle" =>
    /\ IsPrefix(result.steps, ExpectedSteps(plan))
    /\ result.steps = ExpectedSteps(plan) =>
         epc = "returned" /\ result.success

C2_Witness ==
  /\ epc = "returned" /\ ~plan.needsInstall
  /\ result.steps = <<"configured", "keys-setup", "service-started">>

\* C3: on a Linux plan, once hasSudoAccess has resolved to false, execute has
\* thrown, no stage function was invoked, no stage command was issued and
\* steps is empty.
C3_NoSudoAccessNoStage ==
  (plan.os = "linux" /\ hpc = "done" /\ ~sudoAccess) =>
    /\ epc = "thrown"
    /\ thrown.text = <<"Execution failed", "Insufficient privileges">>
    /\ invoked = <<>> /\ completed = <<>>
    /\ \A fn \in StageFns : issued[fn] = <<>>
    /\ attempts = <<>>
    /\ result.steps = <<>>

C3_Witness ==
  /\ plan.os = "linux" /\ platform = "linux" /\ hpc = "done" /\ ~sudoAccess
  /\ epc = "thrown"

\* at most one sudo -n attempt, and it comes before any interactive one
SudoNFirst ==
  /\ Count(attempts, "sudo-n") <= 1
  /\ \A j \in DOMAIN attempts :
       attempts[j] = "sudo" => \E i \in 1..(j - 1) : attempts[i] = "sudo-n"

\* C4 as stated: every command whose direct attempt failed with a
\* permission-denied signature on a non-Windows target gets exactly one
\* sudo -n attempt before interactive escalation or the final failure.
C4_AlwaysOneNonInteractiveRetry ==
  (platform # "win32" /\ DirectDenied) =>
    /\ SudoNFirst
    /\ xpc \in {"sudo", "returned", "thrown"} => Count(attempts, "sudo-n") = 1

\* C4 amended: the same, provided the elevation helper was found on the PATH.
C4_OneNonInteractiveRetryWhenHelperFound ==
  (platform # "win32" /\ DirectDenied) =>
    /\ SudoNFirst
    /\ sudoAvailable = "yes" => Count(attempts, "sudo-n") = 1

C4_Witness ==
  /\ platform # "win32" /\ DirectDenied /\ sudoAvailable = "yes"
  /\ xpc = "sudo" /\ attempts = <<"direct", "which", "sudo-n", "sudo">>

\* C5: when sudo -n failed for a password/tty-required reason: without an
\* interactive terminal the call has thrown the "non-interactive sudo is not
\* available" error; with one, the command is retried once under interactive
\* sudo with output not captured.
C5_PasswordRequiredFallback ==
  (sudoErr # NoErr /\ HasPasswordSignature(sudoErr)) =>
    IF ~isTTY
      THEN xpc = "thrown" /\ xout.err = NonInteractiveUnavailable
      ELSE /\ Count(attempts, "sudo") = 1
           /\ xpc = "sudo" => ~Head(outstanding).capture

\* C6: on Windows, after a direct attempt failed with a permission-denied
\* signature, execSudo has thrown that very error and spawned nothing else.
C6_WindowsNoEscalation ==
  (platform = "win32" /\ DirectDenied) =>
    /\ xpc = "thrown"
    /\ xout.kind = "thrown" /\ xout.err = directErr
    /\ attempts = <<"direct">>
    /\ sudoAvailable = "unknown"
    /\ outstanding = <<>>

C6_Witness ==
  /\ platform = "win32" /\ DirectDenied /\ xpc = "thrown"
  /\ "Permission denied" \in directErr.sigs

\* C7: when the direct attempt exits with code 0, execSudo returns the result
\* of that attempt, with code 0, and has spawned exactly that one child.
C7_SuccessNoRetry ==
  (xpc # "idle" /\ exits # <<>> /\ exits[1] = 0) =>
    /\ xpc = "returned"
    /\ xout.kind = "returned" /\ xout.res.code = 0
    /\ attempts = <<"direct">> /\ exits = <<0>>
    /\ outstanding = <<>>

C7_Witness ==
  /\ xpc = "returned" /\ exits = <<0>> /\ xcaller = "top"
  /\ xout.res.stderr = {"Permission denied"}

\* C8: after a direct attempt failed with an error that carries no
\* permission-denied signature, execSudo has thrown that very error without
\* looking up the helper or spawning anything else, on every platform.
C8_OtherErrorNotRetried ==
  (directErr # NoErr /\ ~HasPermissionSignature(directErr)) =>
    /\ xpc = "thrown"
    /\ xout.kind = "thrown" /\ xout.err = directErr
    /\ attempts = <<"direct">>
    /\ sudoAvailable = "unknown"

C8_Witness ==
  /\ platform = "linux" /\ xpc = "thrown" /\ directErr # NoErr
  /\ directErr.sigs = {"password"}

\* C9: on a non-Windows target, after a permission-denied direct attempt and
\* a failed helper lookup, execSudo has thrown the "sudo is not available"
\* error, which differs from the process failures and from the
\* non-interactive one, and never spawned sudo.
C9_HelperMissing ==
  (platform # "win32" /\ DirectDenied /\ sudoAvailable = "no") =>
    /\ xpc = "thrown"
    /\ xout.kind = "thrown" /\ xout.err = SudoUnavailable
    /\ xout.err.text \notin {<<"Command failed">>, <<"Failed to spawn">>}
    /\ xout.err # NonInteractiveUnavailable
    /\ attempts = <<"direct", "which">>

C9_Witness ==
  /\ platform # "win32" /\ DirectDenied /\ sudoAvailable = "no"
  /\ xpc = "thrown" /\ xcaller = "top"

\* C10: on both OS variants the stage functions are invoked in the order
\* install (only if needsInstall), configure, authorize keys, start; every
\* stage invoked before the latest one has completed and has its name in
\* steps at its position.
C10_StageOrder ==
  plan.os \in {"linux", "windows"} =>
    /\ IsPrefix(invoked, ExpectedStages(plan))
    /\ \A i \in 1..(Len(invoked) - 1) :
         /\ i <= Len(completed) /\ completed[i] = invoked[i]
         /\ i <= Len(result.steps) /\ result.steps[i] = StepName(invoked[i])

C10_Witness ==
  /\ plan.os = "linux" /\ ~plan.needsInstall /\ epc = "startSSH"
  /\ invoked = <<"configureSSH", "setupAuthorizedKeys", "startSSH">>

\* C11: with needsInstall false the install stage is skipped: installSSH is
\* never invoked and issues nothing, installed stays false and "installed"
\* is never in steps, while the run starts at configure and, when it
\* returns, has gone through configure, authorize keys and start.
C11_InstallSkipped ==
  (epc # "idle" /\ ~plan.needsInstall) =>
    /\ "installSSH" \notin Range(invoked)
    /\ issued["installSSH"] = <<>>
    /\ ~result.installed
    /\ "installed" \notin Range(result.steps)
    /\ plan.os \in {"linux", "windows"} =>
         /\ IsPrefix(invoked, Tail(StageOrder))
         /\ epc = "returned" =>
              invoked = <<"configureSSH", "setupAuthorizedKeys", "startSSH">>

C11_Witness ==
  /\ plan.os = "windows" /\ ~plan.needsInstall /\ epc = "returned"
  /\ invoked = <<"configureSSH", "setupAuthorizedKeys", "startSSH">>
  /\ ~result.installed

\* C12: once every stage of the plan has completed, execute has returned the
\* fully populated result: success and the three flags true, installed equal
\* to needsInstall, steps the whole stage list filtered by needsInstall.
C12_FullSuccess ==
  (plan.os \in {"linux", "windows"} /\ completed = ExpectedStages(plan)) =>
    /\ epc = "returned"
    /\ result = [installed |-> plan.needsInstall, configured |-> TRUE,
                 keysSetup |-> TRUE, serviceStarted |-> TRUE,
                 steps |-> ExpectedSteps(plan), success |-> TRUE]

C12_Witness ==
  /\ plan = [os |-> "windows", needsInstall |-> TRUE]
  /\ completed = StageOrder /\ result.success

C13_AbortedState ==
  /\ NoDuplicates(invoked)
  /\ failed # "none" =>
       /\ epc = "thrown"
       /\ invoked = Append(completed, failed)
       /\ outstanding = <<>>
       /\ thrown = Wrap("Execution failed", failedErr)
       /\ ~result.success

\* C13: once a stage function has thrown, execute has thrown the stage's
\* error wrapped as "Execution failed", the failed stage is the last one
\* invoked, no stage function was invoked twice, nothing is in flight and
\* nothing happens any more (no further stage, no retry, no rollback).
C13_FirstFailureAborts ==
  []C13_AbortedState /\ [][failed # "none" => UNCHANGED vars]_vars

C13_Witness ==
  /\ failed = "configureSSH" /\ completed = <<"installSSH">>
  /\ epc = "thrown" /\ plan.os = "windows"

\* the steps list carried by an error object (none when it has no such
\* property)
AttachedSteps(error) ==
  IF "steps" \in DOMAIN error THEN error.steps ELSE <<>>

\* C14: when a stage fails after earlier stages completed, the error execute
\* throws carries the partially built steps list.
C14_StepsAttachedToError ==
  (epc = "thrown" /\ failed # "none" /\ result.steps # <<>>) =>
    AttachedSteps(thrown) = result.steps

\* C15: hasSudoAccess resolves to true exactly when the process is already
\* privileged, or the helper lookup and then the sudo -n -v probe both exit
\* with 0; when the lookup or the probe fails in any way it resolves to
\* false, so that the only error execute throws there is its own.
C15_SudoAccess ==
  hpc = "done" =>
    /\ sudoAccess <=> (isRoot \/ hexits = <<0, 0>>)
    /\ ~sudoAccess => /\ epc = "thrown"
                      /\ thrown.text = <<"Execution failed", "Insufficient privileges">>
                      /\ thrown.origin = "execute"

C15_Witness ==
  /\ hpc = "done" /\ ~sudoAccess /\ ~isRoot /\ hexits = <<0, -1>>

\* C16: at most one child process is outstanding at any time.
C16_OneOutstanding == Len(outstanding) <= 1

C16_Witness ==
  /\ epc = "startSSH" /\ plan.os = "linux" /\ xpc = "sudo-n"
  /\ Len(outstanding) = 1 /\ Len(issued["startSSH"]) = 2

StartCommands == <<"Set-Service", "Start-Service", "Get-Service">>

\* C17: startSSH issues set-automatic-start, start and one status read, in
\* this order, each only after the one before resolved; it completes only
\* when the single status read shows "Running", and it fails at the first
\* command that fails or at the status read that does not show "Running",
\* with no further command.
C17_StartSSH ==
  plan.os = "windows" =>
    LET is == issued["startSSH"]
        ob == observed["startSSH"]
    IN  /\ IsPrefix(is, StartCommands)
        /\ Len(ob) <= Len(is)
        /\ \A i \in 1..(Len(is) - 1) : i <= Len(ob) /\ ob[i].ok
        /\ "startSSH" \in Range(completed) =>
             /\ is = StartCommands /\ Len(ob) = 3
             /\ ob[3].ok /\ "Running" \in ob[3].output
        /\ failed = "startSSH" =>
             /\ Len(ob) = Len(is)
             /\ \/ ~ob[Len(ob)].ok
                \/ Len(ob) = 3 /\ "Running" \notin ob[3].output

C17_Witness ==
  /\ plan.os = "windows" /\ failed = "startSSH"
  /\ issued["startSSH"] = StartCommands
  /\ Len(observed["startSSH"]) = 3 /\ observed["startSSH"][3].ok

InstallCommands == <<"Get-WindowsCapability", "Add-WindowsCapability">>

C19_OnlyPasswordWithoutTerminal ==
  (xpc = "thrown" /\ xout.err = NonInteractiveUnavailable) =>
    /\ sudoErr # NoErr /\ HasPasswordSignature(sudoErr)
    /\ ~isTTY

\* C20: whatever plan.os is, a result with success = true means that
\* configure, authorize keys and start service all completed and are in
\* steps.
C20_SuccessMeansStagesRan ==
  (epc = "returned" /\ result.success) =>
    /\ result.configured /\ result.keysSetup /\ result.serviceStarted
    /\ {"configured", "keys-setup", "service-started"} \subseteq Range(result.steps)
    /\ {"configureSSH", "setupAuthorizedKeys", "startSSH"} \subseteq Range(completed)

RunnerChildren == <<"direct", "which", "sudo-n", "sudo">>

C21_AtMostFourChildren ==
  /\ IsPrefix(attempts, RunnerChildren)
  /\ NoDuplicates(attempts)
  /\ Len(attempts) <= 4

ExecSudoRunning == xpc \in {"direct", "which", "sudo-n", "sudo"}
ExecSudoEnded == xpc \in {"returned", "thrown"}
ExecuteRunning == epc \notin {"idle", "returned", "thrown"}
ExecuteEnded == epc \in {"returned", "thrown"}

\* C21: when every awaited child process eventually ends, an execSudo call
\* spawns at most the direct attempt, the helper lookup, sudo -n and
\* interactive sudo, each at most once and in this order, and it eventually
\* returns or throws; every execute call eventually returns or throws.
C21_Termination ==
  /\ []C21_AtMostFourChildren
  /\ ExecSudoRunning ~> ExecSudoEnded
  /\ ExecuteRunning ~> ExecuteEnded

C21_Witness ==
  /\ xpc = "returned" /\ attempts = RunnerChildren /\ xcaller = "top"

\* C22: in every state (execute suspended on a stage, or ended) each flag of
\* the result agrees with the step log, and a flag that is set belongs to a
\* stage function that has completed.
C22_FlagsAgreeWithSteps ==
  /\ result.installed <=> "installed" \in Range(result.steps)
  /\ result.configured <=> "configured" \in Range(result.steps)
  /\ result.keysSetup <=> "keys-setup" \in Range(result.steps)
  /\ result.serviceStarted <=> "service-started" \in Range(result.steps)
  /\ result.installed => "installSSH" \in Range(completed)
  /\ result.configured => "configureSSH" \in Range(completed)
  /\ result.keysSetup => "setupAuthorizedKeys" \in Range(completed)
  /\ result.serviceStarted => "startSSH" \in Range(completed)

C22_Witness ==
  /\ epc = "startSSH" /\ result.installed /\ result.configured
  /\ result.keysSetup /\ ~result.serviceStarted
  /\ result.steps = <<"installed", "configured", "keys-setup">>

====
